---------------------------- MODULE Spec2Model ----------------------------
(***************************************************************************)
(* Model of src/src/lib.rs: QuadTransformer, point_is_inside_quad and      *)
(* build_transform.                                                        *)
(*                                                                         *)
(* Numbers.  The source computes in f32.  The model computes in exact      *)
(* rational arithmetic: a number is a pair <<n, d>> with d > 0 and         *)
(* gcd(n, d) = 1, so equal numbers are equal values.  All inputs of the    *)
(* model are small integers and halves, which f32 represents exactly;      *)
(* the rounding of the linear solve is the one thing abstracted.           *)
(***************************************************************************)
EXTENDS Integers, Sequences, FiniteSets, TLC

\* Option<T>: None is the empty tuple, Some(v) the 1-tuple of v.
None == <<>>
Some(v) == <<v>>

(***************************************************************************)
(* Bounds of the model.                                                    *)
(***************************************************************************)
MaxLen == 2        \* longest slice handed to filter_points_inside

(***************************************************************************)
(* f32 arithmetic, modelled exactly.                                       *)
(***************************************************************************)
Abs(x) == IF x < 0 THEN -x ELSE x

GCD[a \in Nat, b \in Nat] == IF b = 0 THEN a ELSE GCD[b, a % b]

Norm(n, d) ==
    LET s == IF d < 0 THEN -1 ELSE 1
        g == GCD[Abs(n), Abs(d)]
    IN  <<(s * n) \div g, (s * d) \div g>>

R(n) == <<n, 1>>
Zero == <<0, 1>>
One == <<1, 1>>
Half == <<1, 2>>

RAdd(p, q) == IF p[1] = 0 THEN q ELSE IF q[1] = 0 THEN p
              ELSE Norm(p[1] * q[2] + q[1] * p[2], p[2] * q[2])
RNeg(p) == <<-p[1], p[2]>>
RSub(p, q) == RAdd(p, RNeg(q))
RMul(p, q) == IF p[1] = 0 \/ q[1] = 0 THEN Zero
              ELSE Norm(p[1] * q[1], p[2] * q[2])
RDiv(p, q) == IF p[1] = 0 THEN Zero ELSE Norm(p[1] * q[2], p[2] * q[1])
RLe(p, q) == p[1] * q[2] <= q[1] * p[2]
RGe(p, q) == RLe(q, p)

(***************************************************************************)
(* const DST_SIZE, DEFAULT_DST_QUAD.  A Point2D is a pair of numbers, a    *)
(* RectCorners a 4-tuple of points.                                        *)
(***************************************************************************)
DST_SIZE == One

DEFAULT_DST_QUAD ==
    << <<Zero, Zero>>, <<DST_SIZE, Zero>>, <<DST_SIZE, DST_SIZE>>, <<Zero, DST_SIZE>> >>

Pt(x, y) == <<R(x), R(y)>>

(***************************************************************************)
(* build_transform.                                                        *)
(***************************************************************************)
\* Arrays of 8 and 16 terms, built term by term.
Array8(F(_)) == SubSeq([j \in 1..8 |-> F(j)], 1, 8)
Array16(F(_)) == SubSeq([j \in 1..16 |-> F(j)], 1, 16)

\* r1 .. r8 of build_transform: two rows of eight terms per corner, the
\* odd rows for the x' equation and the even rows for the y' equation.
MappingRow(src_quad, dst, k) ==
    LET i == (k + 1) \div 2
        x == src_quad[i][1]
        y == src_quad[i][2]
    IN  IF k % 2 = 1
        THEN <<x, y, One, Zero, Zero, Zero,
               RMul(RNeg(x), dst[i][1]), RMul(RNeg(y), dst[i][1])>>
        ELSE <<Zero, Zero, Zero, x, y, One,
               RMul(RNeg(x), dst[i][2]), RMul(RNeg(y), dst[i][2])>>

\* vec![r1, ..., r8].into_iter().flatten(): the n-th of the 64 terms,
\* row after row (n counted from 0).
Combined(src_quad, dst, n) ==
    MappingRow(src_quad, dst, (n \div 8) + 1)[(n % 8) + 1]

\* A variant of MatrixA that takes the 64 terms row by row, as the rows
\* r1 .. r8 are written down.
MatrixA_RowMajor(src_quad, dst) ==
    Array8(LAMBDA i : Array8(LAMBDA j : Combined(src_quad, dst, (i - 1) * 8 + (j - 1))))

\* Matrix8x8::from_iterator fills the matrix column by column: term n of
\* the iterator lands in column n div 8, row n mod 8, so entry (i, j) of
\* matrix_a is term (j - 1) * 8 + (i - 1).
MatrixA(src_quad, dst) ==
    Array8(LAMBDA i : Array8(LAMBDA j : Combined(src_quad, dst, (j - 1) * 8 + (i - 1))))

\* dst_quad_elements collected into the 1x8 matrix_b.
MatrixB(dst) ==
    Array8(LAMBDA k : IF k % 2 = 1 THEN dst[(k + 1) \div 2][1]
                                   ELSE dst[(k + 1) \div 2][2])

\* One step of the Gauss-Jordan elimination of the augmented matrix
\* [A | I]: column c is cleared with a pivot taken from rows c..8.  None
\* when the column has no pivot left, i.e. the matrix is singular.
\* (nalgebra pivots on the largest entry; in exact arithmetic the choice
\* of the pivot does not change the result.)
EliminateColumn(aug, c) ==
    IF aug = None THEN None
    ELSE LET cand == {r \in c..8 : aug[r][c] # Zero}
         IN  IF cand = {} THEN None
             ELSE LET p == CHOOSE r \in cand : \A q \in cand : r <= q
                      sw == [aug EXCEPT ![c] = aug[p], ![p] = aug[c]]
                      pv == sw[c][c]
                      prow == Array16(LAMBDA j : RDiv(sw[c][j], pv))
                  IN  Array8(LAMBDA r :
                          IF r = c THEN prow
                          ELSE IF sw[r][c] = Zero THEN sw[r]
                          ELSE Array16(LAMBDA j :
                                   RSub(sw[r][j], RMul(sw[r][c], prow[j]))))

\* The columns c..8 cleared one after the other.
RECURSIVE EliminateFrom(_, _)
EliminateFrom(aug, c) ==
    IF c > 8 THEN aug ELSE EliminateFrom(EliminateColumn(aug, c), c + 1)

Eliminate(aug) == EliminateFrom(aug, 1)

\* Matrix8x8::try_inverse: None for a singular matrix, else the inverse.
try_inverse(m) ==
    LET aug == Array8(LAMBDA i : Array16(LAMBDA j :
                   IF j <= 8 THEN m[i][j] ELSE IF j - 8 = i THEN One ELSE Zero))
        red == Eliminate(aug)
    IN  IF red = None THEN None
        ELSE Array8(LAMBDA i : Array8(LAMBDA j : red[i][j + 8]))

Sum8(v) == RAdd(RAdd(RAdd(v[1], v[2]), RAdd(v[3], v[4])),
                RAdd(RAdd(v[5], v[6]), RAdd(v[7], v[8])))

\* matrix_b * inverse: a row vector times a matrix.
RowTimes(row, m) == Array8(LAMBDA k : Sum8(Array8(LAMBDA i : RMul(row[i], m[i][k]))))

\* build_transform: panicked stands for the unwrap() of a None inverse;
\* otherwise value is the Matrix3 returned.
build_transform(src_quad, dst) ==
    LET inverse == try_inverse(MatrixA(src_quad, dst))
    IN  IF inverse = None THEN [panicked |-> TRUE, value |-> None]
        ELSE LET coefficients == RowTimes(MatrixB(dst), inverse)
             IN  [panicked |-> FALSE,
                  value |-> << <<coefficients[1], coefficients[2], coefficients[3]>>,
                               <<coefficients[4], coefficients[5], coefficients[6]>>,
                               <<coefficients[7], coefficients[8], One>> >>]

(***************************************************************************)
(* Matrix3::transform_point, as QuadTransformer::transform calls it: the   *)
(* point is lifted to (x, y, 1), multiplied by the matrix and divided by   *)
(* the third coordinate n; nalgebra leaves out the division when n is 0.   *)
(***************************************************************************)
transform_point(matrix, point) ==
    LET x == point[1]
        y == point[2]
        tx == RAdd(RAdd(RMul(matrix[1][1], x), RMul(matrix[1][2], y)), matrix[1][3])
        ty == RAdd(RAdd(RMul(matrix[2][1], x), RMul(matrix[2][2], y)), matrix[2][3])
        n == RAdd(RAdd(RMul(matrix[3][1], x), RMul(matrix[3][2], y)), matrix[3][3])
    IN  IF n # Zero THEN <<RDiv(tx, n), RDiv(ty, n)>> ELSE <<tx, ty>>

\* A variant of point_is_inside_quad that leaves the boundary out.
point_is_inside_quad_Strict(point, dst, margin) ==
    LET x == point[1]
        y == point[2]
        Lt(p, q) == RLe(p, q) /\ p # q
    IN  IF dst # None
        THEN LET a == dst[1][1]
                 b == dst[1][2]
                 d == dst[1][4]
             IN  /\ Lt(RSub(a[1], margin), x)
                 /\ Lt(x, RAdd(b[1], margin))
                 /\ Lt(RSub(a[2], margin), y)
                 /\ Lt(y, RAdd(d[2], margin))
        ELSE /\ Lt(RSub(Zero, margin), x)
             /\ Lt(x, RAdd(DST_SIZE, margin))
             /\ Lt(RSub(Zero, margin), y)
             /\ Lt(y, RAdd(DST_SIZE, margin))

(***************************************************************************)
(* point_is_inside_quad(point, dst_quad, margin)                         *)
(***************************************************************************)
point_is_inside_quad(point, dst, margin) ==
    LET x == point[1]
        y == point[2]
    IN  IF dst # None
        THEN LET a == dst[1][1]
                 b == dst[1][2]
                 d == dst[1][4]
             IN  /\ RGe(x, RSub(a[1], margin))
                 /\ RLe(x, RAdd(b[1], margin))
                 /\ RGe(y, RSub(a[2], margin))
                 /\ RLe(y, RAdd(d[2], margin))
        ELSE /\ RGe(x, RSub(Zero, margin))
             /\ RLe(x, RAdd(DST_SIZE, margin))
             /\ RGe(y, RSub(Zero, margin))
             /\ RLe(y, RAdd(DST_SIZE, margin))

(***************************************************************************)
(* Inputs of the model.                                                    *)
(***************************************************************************)
Quad(x1, y1, x2, y2, x3, y3, x4, y4) == <<Pt(x1, y1), Pt(x2, y2), Pt(x3, y3), Pt(x4, y4)>>

UnitSquare == Quad(0, 0, 1, 0, 1, 1, 0, 1)
ShiftedSquare == Quad(1, 0, 2, 0, 2, 1, 1, 1)
TopCollinear == Quad(0, 0, 1, 0, 2, 0, 0, 1)       \* corners 1, 2, 3 on a line
BottomCollinear == Quad(0, 0, 0, 1, 1, 1, 2, 1)    \* corners 2, 3, 4 on a line

TestDst == Quad(1, 2, 1, 4, 3, 4, 3, 2)            \* test_get_transform_matrix_simple
CenteredDst == Quad(-1, -1, 1, -1, 1, 1, -1, 1)    \* test_inside_dst_quad, scaled
DstTrapezoid == Quad(0, 0, 2, 0, 2, 2, 0, 1)
VanishingDst == Quad(4, 0, 3, 0, 3, 1, 4, 2)
CollinearDst == Quad(1, 0, 0, 2, 2, 0, 0, 0)       \* corners 1, 3, 4 on a line

SrcQuads == {UnitSquare, ShiftedSquare, TopCollinear, BottomCollinear}
DstQuads == {TestDst, CenteredDst, DstTrapezoid, VanishingDst, CollinearDst}

OptSrc == {None} \cup {Some(q) : q \in SrcQuads}
OptDst == {None} \cup {Some(q) : q \in DstQuads}
Margins == {None, Some(R(-1)), Some(Zero), Some(One)}

\* The points handed to transform, and those handed to filter_points_inside.
TransformPoints == {Pt(0, 0), <<Half, Half>>, Pt(1, 0), Pt(1, 1), Pt(2, 1)}
FilterPoints == {Pt(0, 0), Pt(1, 1), Pt(2, 0), Pt(2, 2), Pt(-1, 0)}
Slices == UNION {[1..n -> FilterPoints] : n \in 0..MaxLen}

\* The solves the model needs, each computed once.
SolvedTable ==
    {<<s, d, build_transform(s, d)>> : s \in SrcQuads, d \in DstQuads \cup {DEFAULT_DST_QUAD}}

Solved(src_quad, dst) ==
    (CHOOSE t \in SolvedTable : t[1] = src_quad /\ t[2] = dst)[3]

(***************************************************************************)
(* The session and its callers.                                            *)
(*   pc                     "unconstructed", "live", or "panicked" once a  *)
(*   transform_matrix, ignore_outside_margin, dst_quad                     *)
(*   transform_matrix, ignore_outside_margin, dst_quad                *)
(*                          the fields of QuadTransformer                  *)
(*   last_src               the source quadrilateral of the latest new or  *)
(*                          set_new_quad call (history)                    *)
(*   op, arg, ret           the latest call, its arguments and its result  *)
(***************************************************************************)
VARIABLES pc, transform_matrix, ignore_outside_margin, dst_quad, last_src, op, arg, ret

vars == <<pc, transform_matrix, ignore_outside_margin, dst_quad, last_src, op, arg, ret>>
session == <<transform_matrix, ignore_outside_margin, dst_quad>>

\* What a call hands back: a plain value, the Ok or Err of an
\* anyhow::Result, or nothing at all when the call unwinds with a panic.
Value(v) == [kind |-> "value", value |-> v]
Ok(v) == [kind |-> "Ok", value |-> v]
Err(e) == [kind |-> "Err", value |-> e]
Unwind == [kind |-> "unwind", value |-> "unwrap on None"]
Unit == "()"

Init ==
    /\ pc = "unconstructed"
    /\ transform_matrix = None
    /\ ignore_outside_margin = None
    /\ dst_quad = None
    /\ last_src = None
    /\ op = "none"
    /\ arg = None
    /\ ret = Value(Unit)

\* let useable_dst_quad = match dst_quad { Some(q) => q, None => DEFAULT_DST_QUAD }
Useable(dst) == IF dst = None THEN DEFAULT_DST_QUAD ELSE dst[1]

\* QuadTransformer::new.  The two warn! calls write to the log only.  A
\* panic of build_transform unwinds out of new: no session is returned.
New(src_quad, dst, margin) ==
    /\ pc = "unconstructed"
    /\ op' = "new"
    /\ arg' = [src |-> src_quad, dst |-> dst, margin |-> margin]
    /\ last_src' = src_quad
    /\ LET useable_dst_quad == Useable(dst)
           built == IF src_quad = None THEN None
                    ELSE Some(Solved(src_quad[1], useable_dst_quad))
       IN  IF built # None /\ built[1].panicked
           THEN /\ pc' = "panicked"
                /\ ret' = Unwind
                /\ UNCHANGED session
           ELSE /\ pc' = "live"
                /\ transform_matrix' = IF built = None THEN None ELSE Some(built[1].value)
                /\ dst_quad' = dst
                /\ ignore_outside_margin' = margin
                /\ ret' = Value("QuadTransformer")

\* A variant of SetNewQuad that stores a destination only when one is given.
SetNewQuad_KeepsDst(src_quad, dst) ==
    /\ pc = "live"
    /\ op' = "set_new_quad"
    /\ arg' = [src |-> src_quad, dst |-> dst]
    /\ last_src' = Some(src_quad)
    /\ dst_quad' = IF dst = None THEN dst_quad ELSE dst
    /\ UNCHANGED ignore_outside_margin
    /\ LET built == Solved(src_quad, Useable(dst))
       IN  IF built.panicked
           THEN /\ pc' = "panicked"
                /\ ret' = Unwind
                /\ UNCHANGED transform_matrix
           ELSE /\ pc' = "live"
                /\ transform_matrix' = Some(built.value)
                /\ ret' = Value(Unit)

\* QuadTransformer::set_new_quad.  self.dst_quad is assigned before
\* build_transform runs, and transform_matrix after it has returned.
SetNewQuad(src_quad, dst) ==
    /\ pc = "live"
    /\ op' = "set_new_quad"
    /\ arg' = [src |-> src_quad, dst |-> dst]
    /\ last_src' = Some(src_quad)
    /\ dst_quad' = dst
    /\ UNCHANGED ignore_outside_margin
    /\ LET useable_dst_quad == Useable(dst)
           built == Solved(src_quad, useable_dst_quad)
       IN  IF built.panicked
           THEN /\ pc' = "panicked"
                /\ ret' = Unwind
                /\ UNCHANGED transform_matrix
           ELSE /\ pc' = "live"
                /\ transform_matrix' = Some(built.value)
                /\ ret' = Value(Unit)

\* A variant of Transform that hands the point back unchanged when no
\* matrix is cached.
Transform_IdentityWhenNotReady(point) ==
    /\ pc = "live"
    /\ op' = "transform"
    /\ arg' = point
    /\ ret' = IF transform_matrix # None
              THEN Ok(transform_point(transform_matrix[1], point))
              ELSE Ok(point)
    /\ UNCHANGED <<pc, session, last_src>>

\* QuadTransformer::transform
Transform(point) ==
    /\ pc = "live"
    /\ op' = "transform"
    /\ arg' = point
    /\ ret' = IF transform_matrix # None
              THEN Ok(transform_point(transform_matrix[1], point))
              ELSE Err("No transform matrix")
    /\ UNCHANGED <<pc, session, last_src>>

\* A variant of FilterMapCollect that collects the kept points in reverse.
RECURSIVE FilterMapCollect_Reversed(_, _, _)
FilterMapCollect_Reversed(points, margin, dst) ==
    IF points = <<>> THEN <<>>
    ELSE LET point == Head(points)
             keep == IF margin # None
                     THEN point_is_inside_quad(point, dst, margin[1])
                     ELSE TRUE
         IN  FilterMapCollect_Reversed(Tail(points), margin, dst)
                 \o (IF keep THEN << <<point[1], point[2]>> >> ELSE <<>>)

\* The iterator chain of filter_points_inside: filter, map, collect.
RECURSIVE FilterMapCollect(_, _, _)
FilterMapCollect(points, margin, dst) ==
    IF points = <<>> THEN <<>>
    ELSE LET point == Head(points)
             keep == IF margin # None
                     THEN point_is_inside_quad(point, dst, margin[1])
                     ELSE TRUE
         IN  (IF keep THEN << <<point[1], point[2]>> >> ELSE <<>>)
                 \o FilterMapCollect(Tail(points), margin, dst)

\* QuadTransformer::filter_points_inside
FilterPointsInside(points) ==
    /\ pc = "live"
    /\ op' = "filter_points_inside"
    /\ arg' = points
    /\ ret' = Value(FilterMapCollect(points, ignore_outside_margin, dst_quad))
    /\ UNCHANGED <<pc, session, last_src>>

\* A variant of IsReady that looks at the destination instead of the matrix.
IsReady_DstConfigured ==
    /\ pc = "live"
    /\ op' = "is_ready"
    /\ arg' = None
    /\ ret' = Value(dst_quad # None)
    /\ UNCHANGED <<pc, session, last_src>>

\* QuadTransformer::is_ready
IsReady ==
    /\ pc = "live"
    /\ op' = "is_ready"
    /\ arg' = None
    /\ ret' = Value(transform_matrix # None)
    /\ UNCHANGED <<pc, session, last_src>>

Next ==
    \/ \E s \in OptSrc, d \in OptDst, m \in Margins : New(s, d, m)
    \/ \E s \in SrcQuads, d \in OptDst : SetNewQuad(s, d)
    \/ \E p \in TransformPoints : Transform(p)
    \/ \E ps \in Slices : FilterPointsInside(ps)
    \/ IsReady

Spec == Init /\ [][Next]_vars

(***************************************************************************)
(* Vocabulary of the properties.                                           *)
(***************************************************************************)
Cross(p, q, r) ==
    RSub(RMul(RSub(q[1], p[1]), RSub(r[2], p[2])),
         RMul(RSub(q[2], p[2]), RSub(r[1], p[1])))

Collinear(p, q, r) == Cross(p, q, r) = Zero

\* Three or more corners on one line; coincident corners are a case of it.
Degenerate(quad) ==
    \E i, j, k \in 1..4 : i < j /\ j < k /\ Collinear(quad[i], quad[j], quad[k])

\* x' = (a*x + b*y + c) / (g*x + h*y + 1), y' = (d*x + e*y + f) / (g*x + h*y + 1)
\* takes point s to point t; stated without a division.
MapsTo(m, s, t) ==
    LET n == RAdd(RAdd(RMul(m[3][1], s[1]), RMul(m[3][2], s[2])), m[3][3])
    IN  /\ n # Zero
        /\ RAdd(RAdd(RMul(m[1][1], s[1]), RMul(m[1][2], s[2])), m[1][3]) = RMul(t[1], n)
        /\ RAdd(RAdd(RMul(m[2][1], s[1]), RMul(m[2][2], s[2])), m[2][3]) = RMul(t[2], n)

CornerCorrespondence(m, src, dst) ==
    /\ \A i \in 1..4 : MapsTo(m, src[i], dst[i])
    /\ m[3][3] = One

Occurs(p, seq) == \E k \in 1..Len(seq) : seq[k] = p

\* p lies on the segment from a to b.
Between(u, v, w) == (RLe(u, v) /\ RLe(v, w)) \/ (RLe(w, v) /\ RLe(v, u))
OnSegment(p, a, b) ==
    /\ Collinear(a, b, p)
    /\ Between(a[1], p[1], b[1])
    /\ Between(a[2], p[2], b[2])

OnEdge(p, quad) == \E i \in 1..4 : OnSegment(p, quad[i], quad[(i % 4) + 1])

\* The k-th smallest member of a set of indices.
Nth(I, k) == CHOOSE i \in I : Cardinality({j \in I : j <= i}) = k

\* out is input cut down to the indices in I, in input order.
IsRestriction(out, input, I) ==
    /\ Len(out) = Cardinality(I)
    /\ \A k \in 1..Len(out) : out[k] = input[Nth(I, k)]

Live == pc = "live"
Ready == transform_matrix # None

(***************************************************************************)
(* C1.  Corner correspondence.                                             *)
(***************************************************************************)
\* C1 as claimed: for every source quadrilateral with no three corners on
\* a line and EVERY destination quadrilateral, the matrix build_transform
\* returned maps source corner i onto destination corner i, and its
\* bottom-right element is 1.
C1_AnyDestination ==
    (Live /\ Ready /\ last_src # None /\ ~Degenerate(last_src[1]))
        => CornerCorrespondence(transform_matrix[1], last_src[1], Useable(dst_quad))

\* C1 as amended: for every source quadrilateral and every destination
\* quadrilateral, neither with three corners on a line, the matrix that
\* build_transform returned maps source corner i onto destination corner
\* i for i in 1..4, and its bottom-right element is 1.
C1_CornerCorrespondence ==
    (Live /\ Ready /\ last_src # None
        /\ ~Degenerate(last_src[1]) /\ ~Degenerate(Useable(dst_quad)))
        => CornerCorrespondence(transform_matrix[1], last_src[1], Useable(dst_quad))

\* A projective (not affine) solve with fractions among its coefficients.
C1_Witness ==
    /\ Live /\ Ready
    /\ last_src = Some(ShiftedSquare)
    /\ dst_quad = Some(DstTrapezoid)
    /\ transform_matrix[1][3][1] = <<-1, 3>>
    /\ transform_matrix[1][1][1] = <<2, 3>>

(***************************************************************************)
(* C2.  filter_points_inside.                                              *)
(***************************************************************************)
C2_Result ==
    (Live /\ op = "filter_points_inside") =>
        /\ ret.kind = "value"
        /\ ignore_outside_margin = None => ret.value = arg
        /\ ignore_outside_margin # None =>
               IsRestriction(ret.value, arg,
                   {i \in 1..Len(arg) :
                       point_is_inside_quad(arg[i], dst_quad, ignore_outside_margin[1])})

C2_NoChange == (op' = "filter_points_inside") => (session' = session /\ pc' = pc)

\* C2: with no margin the output of filter_points_inside is its input;
\* with a margin it is the input cut down to the points point_is_inside_quad
\* accepts for the session's dst_quad and margin, in input order and with
\* duplicates kept; the call returns a value whether or not a matrix is
\* cached, and leaves the session as it was.
C2_FilterPointsInside == [](C2_Result) /\ [][C2_NoChange]_vars

\* A session that is not ready drops the first point and keeps the second.
C2_Witness ==
    /\ Live /\ op = "filter_points_inside"
    /\ ~Ready
    /\ ignore_outside_margin = Some(Zero)
    /\ dst_quad = Some(CenteredDst)
    /\ arg = <<Pt(2, 0), Pt(1, 1)>>
    /\ ret.value = <<Pt(1, 1)>>

(***************************************************************************)
(* C3.  transform.                                                         *)
(***************************************************************************)
\* The point the cached matrix maps arg to: the quotient by the third
\* homogeneous coordinate n, or the undivided pair when n is 0.
C3_Mapped(m, point, out) ==
    LET n == RAdd(RAdd(RMul(m[3][1], point[1]), RMul(m[3][2], point[2])), m[3][3])
        tx == RAdd(RAdd(RMul(m[1][1], point[1]), RMul(m[1][2], point[2])), m[1][3])
        ty == RAdd(RAdd(RMul(m[2][1], point[1]), RMul(m[2][2], point[2])), m[2][3])
    IN  IF n = Zero THEN out = <<tx, ty>>
        ELSE RMul(out[1], n) = tx /\ RMul(out[2], n) = ty

C3_Result ==
    (Live /\ op = "transform") =>
        /\ ret.kind \in {"Ok", "Err"}
        /\ ret.kind = "Err" <=> ~Ready
        /\ ret.kind = "Err" => ret.value = "No transform matrix"
        /\ ret.kind = "Ok" => C3_Mapped(transform_matrix[1], arg, ret.value)

C3_NoChange == (op' = "transform") => (session' = session /\ pc' = pc)

\* C3: transform returns the error exactly when no matrix is cached, and
\* the error carries no point; with a matrix cached it returns the point
\* that matrix maps the argument to; either way the session is unchanged.
C3_Transform == [](C3_Result) /\ [][C3_NoChange]_vars

C3_Witness ==
    /\ Live /\ op = "transform"
    /\ ~Ready
    /\ ret = Err("No transform matrix")

\* The scenario of test_get_transform_matrix_simple: (0.5, 0.5) goes to (2, 3).
C3_TestScenario ==
    /\ Live /\ op = "transform"
    /\ last_src = Some(UnitSquare) /\ dst_quad = Some(TestDst)
    /\ arg = <<Half, Half>>
    /\ ret = Ok(Pt(2, 3))

(***************************************************************************)
(* C4.  Readiness.                                                         *)
(***************************************************************************)
\* The coefficient matrix of the pair is invertible.
Solvable(src, dst) == ~Solved(src, Useable(dst)).panicked

\* C4 as claimed, its sentence about set_new_quad: after set_new_quad with
\* a source quadrilateral that has no three corners on a line, the session
\* is ready.
C4_ReadyAfterNonDegenerate ==
    (op = "set_new_quad" /\ ~Degenerate(arg.src)) => (Live /\ Ready)

C4_State ==
    /\ (Live /\ last_src = None) => ~Ready
    /\ (Live /\ op = "transform" /\ ~Ready) => ret.kind = "Err"
    /\ (Live /\ op = "transform" /\ Ready) => ret.kind = "Ok"
    /\ (Live /\ op = "is_ready") => ret.value = Ready
    /\ (op = "set_new_quad" /\ Solvable(arg.src, arg.dst)) => (Live /\ Ready)
    /\ (op = "set_new_quad" /\ ~Solvable(arg.src, arg.dst)) => ~Live

C4_StaysReady == Ready => Ready'

\* C4 as amended: a session constructed with no source quadrilateral is
\* not ready, and transform fails, until the first set_new_quad; after
\* set_new_quad with a source and destination whose coefficient matrix is
\* invertible the session is ready and transform succeeds (with a singular
\* matrix the call does not return); no step takes a ready session back to
\* not ready; is_ready() is true iff a matrix is cached.
C4_Readiness == [](C4_State) /\ [][C4_StaysReady]_vars

\* is_ready() answers false on a session that has a destination but was
\* given no source.
C4_Witness ==
    /\ Live /\ op = "is_ready"
    /\ last_src = None
    /\ dst_quad # None
    /\ ret.value = FALSE

\* ... and true once set_new_quad has returned.
C4_WitnessReady ==
    /\ Live /\ op = "is_ready"
    /\ last_src = Some(UnitSquare)
    /\ dst_quad = None
    /\ ret.value = TRUE

(***************************************************************************)
(* C5.  A degenerate source handed to set_new_quad.                        *)
(***************************************************************************)
\* C5: set_new_quad with a source quadrilateral that has three corners on
\* a line returns an error value to its caller: the call returns (the
\* program is not aborted) and what it returns is an Err, not a session
\* with a matrix silently stored.
C5_DegenerateRejected ==
    (op = "set_new_quad" /\ Degenerate(arg.src)) => (Live /\ ret.kind = "Err")

(***************************************************************************)
(* C6.  A degenerate source handed to new.                                 *)
(***************************************************************************)
\* C6: new with a source quadrilateral that has three corners on a line
\* returns a session with no cached matrix, whose dst_quad and margin are
\* the ones passed.
C6_GracefulConstruction ==
    (op = "new" /\ arg.src # None /\ Degenerate(arg.src[1])) =>
        /\ Live
        /\ ~Ready
        /\ dst_quad = arg.dst
        /\ ignore_outside_margin = arg.margin

(***************************************************************************)
(* C7.  Boundary of a configured destination.                              *)
(***************************************************************************)
\* C7: with a destination quadrilateral configured and margin 0, every
\* point on one of the quadrilateral's four edges passes the filter.
C7_EdgeInclusive ==
    (Live /\ op = "filter_points_inside"
        /\ dst_quad # None /\ ignore_outside_margin = Some(Zero)) =>
        \A i \in 1..Len(arg) :
            OnEdge(arg[i], dst_quad[1]) => Occurs(arg[i], ret.value)

(***************************************************************************)
(* C8.  The default region.                                                *)
(***************************************************************************)
InDefaultRegion(p, margin) ==
    /\ RLe(RNeg(margin), p[1]) /\ RLe(p[1], RAdd(One, margin))
    /\ RLe(RNeg(margin), p[2]) /\ RLe(p[2], RAdd(One, margin))

\* C8: with no destination quadrilateral configured and a margin >= 0, a
\* point passes the filter if and only if -margin <= x <= 1 + margin and
\* -margin <= y <= 1 + margin.
C8_DefaultRegion ==
    (Live /\ op = "filter_points_inside" /\ dst_quad = None
        /\ ignore_outside_margin # None /\ RLe(Zero, ignore_outside_margin[1])) =>
        \A i \in 1..Len(arg) :
            Occurs(arg[i], ret.value) <=> InDefaultRegion(arg[i], ignore_outside_margin[1])

\* A corner of the unit square is kept, a point one unit to its right is not.
C8_Witness ==
    /\ Live /\ op = "filter_points_inside"
    /\ dst_quad = None
    /\ ignore_outside_margin = Some(Zero)
    /\ arg = <<Pt(1, 1), Pt(2, 0)>>
    /\ ret.value = <<Pt(1, 1)>>

(***************************************************************************)
(* C9.  The margin only widens the region.                                 *)
(***************************************************************************)
\* C9: whatever margin the session was constructed with, a point that
\* point_is_inside_quad accepts with margin 0 passes the filter.
C9_NeverShrinks ==
    (Live /\ op = "filter_points_inside" /\ ignore_outside_margin # None) =>
        \A i \in 1..Len(arg) :
            point_is_inside_quad(arg[i], dst_quad, Zero) => Occurs(arg[i], ret.value)

(***************************************************************************)
(* C10.  The cached matrix and the stored destination go together.         *)
(***************************************************************************)
C10_State ==
    /\ (Live /\ Ready) =>
           /\ last_src # None
           /\ transform_matrix =
                  Some(Solved(last_src[1], Useable(dst_quad)).value)
    /\ (Live /\ op = "set_new_quad") => dst_quad = arg.dst
    /\ (Live /\ op = "new") => dst_quad = arg.dst

C10_MarginKept == (op' = "set_new_quad") => ignore_outside_margin' = ignore_outside_margin

\* C10: between calls, a cached matrix is the one solved from the latest
\* source quadrilateral and the stored dst_quad (the default square when
\* dst_quad is None), so set_new_quad(src, None) puts the default in place
\* of an earlier destination for the matrix and the filter alike; and
\* set_new_quad leaves the margin as it was.
C10_Consistency == [](C10_State) /\ [][C10_MarginKept]_vars

\* set_new_quad(src, None) on a session that keeps a margin: the matrix is
\* the identity onto the default square and no destination is stored.
C10_Witness ==
    /\ Live /\ op = "set_new_quad"
    /\ arg = [src |-> UnitSquare, dst |-> None]
    /\ dst_quad = None
    /\ ignore_outside_margin = Some(One)
    /\ transform_matrix = Some(<< <<One, Zero, Zero>>, <<Zero, One, Zero>>, <<Zero, Zero, One>> >>)

TypeOK == pc \in {"unconstructed", "live", "panicked"}
=============================================================================
